---- MODULE Spec2Model ----
(***************************************************************************)
(* A model of the NBA pace tracker dashboard (nba_pace_tracker.py): the    *)
(* game-clock parser, the pace computation, the per-matchup pace history   *)
(* kept in the session state, and the projection metrics of the display    *)
(* block.  Numbers that the program holds as floats are exact rationals    *)
(* here (a normalised pair <<numerator, denominator>>); IEEE rounding is   *)
(* not modelled.  Strings the program inspects character by character are  *)
(* sequences of one-character strings.                                     *)
(***************************************************************************)
EXTENDS Integers, Sequences, FiniteSets, TLC

(* ------------------------------------------------------------------ *)
(* Bounds of the model                                                 *)
(* ------------------------------------------------------------------ *)

\* wall-clock seconds a poll may see: 0..MaxTime
MaxTime == 1
\* the runs stop once the history holds this many samples in all
MaxSamples == 3
\* periods 0..MaxPeriod: pre-game, four quarters, overtime
MaxPeriod == 5
\* clock texts of every length up to MaxTextLen over ClockAlphabet
MaxTextLen == 5
\* box-score counts 0..MaxStat
MaxStat == 2

(* ------------------------------------------------------------------ *)
(* Exact rational arithmetic                                           *)
(* ------------------------------------------------------------------ *)

\* the one element of a singleton set.  A value that is used several times is
\* bound once as The({ e(x) : x \in {value} }), the model's form of a local
\* variable assignment.
The(S) == CHOOSE x \in S : TRUE

Abs(x) == IF x < 0 THEN -x ELSE x

RECURSIVE Gcd(_, _)
Gcd(a, b) == IF b = 0 THEN a ELSE Gcd(b, a % b)

\* the rational n/d in lowest terms with a positive denominator (d # 0)
\* a zero denominator is what a float division by zero leaves (numpy): <<1, 0>>
\* and <<-1, 0>> are +inf and -inf, <<0, 0>> is NaN
Normalised(p) ==
    IF p[2] = 0 THEN <<IF p[1] > 0 THEN 1 ELSE IF p[1] < 0 THEN -1 ELSE 0, 0>>
    ELSE The({ <<((IF p[2] < 0 THEN -1 ELSE 1) * p[1]) \div g,
                 ((IF p[2] < 0 THEN -1 ELSE 1) * p[2]) \div g>> :
               g \in {Gcd(Abs(p[1]), Abs(p[2]))} })

R(n, d) == The({ Normalised(p) : p \in {<<n, d>>} })

I(n) == <<n, 1>>
RAdd(a, b) == The({ R(x[1] * y[2] + y[1] * x[2], x[2] * y[2]) : x \in {a}, y \in {b} })
RSub(a, b) == The({ R(x[1] * y[2] - y[1] * x[2], x[2] * y[2]) : x \in {a}, y \in {b} })
RMul(a, b) == The({ R(x[1] * y[1], x[2] * y[2]) : x \in {a}, y \in {b} })
RDiv(a, b) == The({ R(x[1] * y[2], x[2] * y[1]) : x \in {a}, y \in {b} })
RLt(a, b) == \E x \in {a}, y \in {b} : x[1] * y[2] < y[1] * x[2]
RLe(a, b) == \E x \in {a}, y \in {b} : x[1] * y[2] <= y[1] * x[2]
RGt(a, b) == RLt(b, a)
RMax(a, b) == The({ IF RLt(x, y) THEN y ELSE x : x \in {a}, y \in {b} })

\* an optional value: Python's None, or a number
None == [some |-> FALSE, v |-> I(0)]
Some(x) == [some |-> TRUE, v |-> x]

(* ------------------------------------------------------------------ *)
(* Text helpers (Python str operations on character sequences)         *)
(* ------------------------------------------------------------------ *)

DigitSeq == <<"0", "1", "2", "3", "4", "5", "6", "7", "8", "9">>
IsDigit(c) == \E i \in 1..10 : DigitSeq[i] = c
DigitVal(c) == (CHOOSE i \in 1..10 : DigitSeq[i] = c) - 1
IsSpace(c) == c = " "

\* Python's `w in s`
Contains(s, w) ==
    \E i \in 1..(Len(s) - Len(w) + 1) : SubSeq(s, i, i + Len(w) - 1) = w

\* number of leading characters of s from position i on that satisfy digit-ness
RECURSIVE DigitRun(_, _)
DigitRun(s, i) ==
    IF i <= Len(s) /\ IsDigit(s[i]) THEN 1 + DigitRun(s, i + 1) ELSE 0

RECURSIVE SpaceRun(_, _)
SpaceRun(s, i) ==
    IF i <= Len(s) /\ IsSpace(s[i]) THEN 1 + SpaceRun(s, i + 1) ELSE 0

\* value of a non-empty digit string
RECURSIVE DigitsValue(_)
DigitsValue(s) ==
    IF Len(s) = 0 THEN 0
    ELSE 10 * DigitsValue(SubSeq(s, 1, Len(s) - 1)) + DigitVal(s[Len(s)])

RECURSIVE Pow10(_)
Pow10(k) == IF k = 0 THEN 1 ELSE 10 * Pow10(k - 1)

\* Python's int(s) on a string of digits: raises on the empty string
PyInt(s) ==
    IF Len(s) > 0 /\ \A i \in 1..Len(s) : IsDigit(s[i])
    THEN [ok |-> TRUE, v |-> I(DigitsValue(s))]
    ELSE [ok |-> FALSE, v |-> I(0)]

\* Python's float(s) on "ddd" or "ddd.ddd": raises on anything else here
PyFloat(s) ==
    The({ IF n = 0 THEN [ok |-> FALSE, v |-> I(0)]
          ELSE IF n = Len(s) THEN [ok |-> TRUE, v |-> I(DigitsValue(s))]
          ELSE IF s[n + 1] = "." /\ Len(s) > n + 1
                  /\ DigitRun(s, n + 2) = Len(s) - n - 1
          THEN [ok |-> TRUE,
                v |-> RAdd(I(DigitsValue(SubSeq(s, 1, n))),
                           R(DigitsValue(SubSeq(s, n + 2, Len(s))),
                             Pow10(Len(s) - n - 1)))]
          ELSE [ok |-> FALSE, v |-> I(0)] :
          n \in {DigitRun(s, 1)} })

\* index of the first ":" of s, or 0
FirstColon(s) ==
    IF \E i \in 1..Len(s) : s[i] = ":"
    THEN CHOOSE i \in 1..Len(s) : s[i] = ":" /\ \A j \in 1..(i - 1) : s[j] # ":"
    ELSE 0

\* the first two fields of s.split(":") for an s that holds a ":"
UpToColon(s) == IF FirstColon(s) = 0 THEN s ELSE SubSeq(s, 1, FirstColon(s) - 1)

SplitColon(s) ==
    The({ <<SubSeq(s, 1, i - 1), UpToColon(SubSeq(s, i + 1, Len(s)))>> :
          i \in {FirstColon(s)} })

(* ------------------------------------------------------------------ *)
(* The clock regex  Q\d\s+(:?\d{0,2}:?\d{2}(\.\d+)?)                  *)
(* ------------------------------------------------------------------ *)

\* the choices of (:? taken, digits taken by \d{0,2}, :? taken) in the order the
\* backtracking matcher tries them (each quantifier greedy)
TokenChoices ==
    << <<1, 2, 1>>, <<1, 2, 0>>, <<1, 1, 1>>, <<1, 1, 0>>, <<1, 0, 1>>, <<1, 0, 0>>,
       <<0, 2, 1>>, <<0, 2, 0>>, <<0, 1, 1>>, <<0, 1, 0>>, <<0, 0, 1>>, <<0, 0, 0>> >>

\* whether choice c matches :?\d{0,2}:?\d{2} at position j of s
ChoiceFits(s, j, c) ==
    LET p1 == j + c[1]
        p2 == p1 + c[2]
        p3 == p2 + c[3]
    IN  /\ (c[1] = 1 => (j <= Len(s) /\ s[j] = ":"))
        /\ DigitRun(s, p1) >= c[2]
        /\ (c[3] = 1 => (p2 <= Len(s) /\ s[p2] = ":"))
        /\ DigitRun(s, p3) >= 2

\* end index of group 1 matched at j (0: no match): the first fitting choice,
\* then the optional greedy fraction
FirstFit(s, j) ==
    CHOOSE k \in 1..12 :
        /\ ChoiceFits(s, j, TokenChoices[k])
        /\ \A h \in 1..(k - 1) : ~ChoiceFits(s, j, TokenChoices[h])

\* the end of (\.\d+)? tried after the two digits that end at e
FractionEnd(s, e) ==
    IF e + 1 <= Len(s) /\ s[e + 1] = "." /\ DigitRun(s, e + 2) > 0
    THEN e + 1 + DigitRun(s, e + 2)
    ELSE e

GroupEnd(s, j) ==
    IF \E k \in 1..12 : ChoiceFits(s, j, TokenChoices[k])
    THEN The({ FractionEnd(s, j + c[1] + c[2] + c[3] + 1) :
               c \in {TokenChoices[FirstFit(s, j)]} })
    ELSE 0

\* whether the regex matches starting at position i
MatchesAt(s, i) ==
    /\ i + 2 <= Len(s)
    /\ s[i] = "Q"
    /\ IsDigit(s[i + 1])
    /\ SpaceRun(s, i + 2) >= 1
    /\ GroupEnd(s, i + 2 + SpaceRun(s, i + 2)) > 0

\* re.search(...): group(1) of the leftmost match, or no match
LeftmostMatch(s) ==
    CHOOSE i \in 1..Len(s) : MatchesAt(s, i) /\ \A h \in 1..(i - 1) : ~MatchesAt(s, h)

ReSearch(s) ==
    IF \E i \in 1..Len(s) : MatchesAt(s, i)
    THEN The({ [found |-> TRUE,
                group1 |-> The({ SubSeq(s, j, GroupEnd(s, j)) :
                                 j \in {i + 2 + SpaceRun(s, i + 2)} })] :
               i \in {LeftmostMatch(s)} })
    ELSE [found |-> FALSE, group1 |-> <<>>]

W_Final == <<"F", "i", "n", "a", "l">>
W_Half == <<"H", "a", "l", "f">>
W_Start == <<"S", "t", "a", "r", "t">>

(* ------------------------------------------------------------------ *)
(* parse_game_clock                                                    *)
(* ------------------------------------------------------------------ *)

\* minutes remaining in the quarter from the matched token; ok = FALSE when the
\* conversion raises
Raised == [ok |-> FALSE, v |-> I(0)]

\* a parser that drops the seconds of the token
MinutesRemaining_NoSeconds(time_part) ==
    IF Contains(time_part, <<":">>)
    THEN The({ IF mins.ok THEN [ok |-> TRUE, v |-> mins.v] ELSE Raised :
               mins \in {PyInt(SplitColon(time_part)[1])} })
    ELSE [ok |-> TRUE, v |-> I(0)]

\* `int(parts[0]) if parts[0] else 0`
MinsOf(part) == IF Len(part) > 0 THEN PyInt(part) ELSE [ok |-> TRUE, v |-> I(0)]

MinutesRemaining(time_part) ==
    IF Contains(time_part, <<":">>)
    THEN The({ IF mins.ok /\ secs.ok
               THEN [ok |-> TRUE, v |-> RAdd(mins.v, RDiv(secs.v, I(60)))]
               ELSE Raised :
               mins \in {MinsOf(SplitColon(time_part)[1])},
               secs \in {PyFloat(SplitColon(time_part)[2])} })
    ELSE The({ IF f.ok THEN [ok |-> TRUE, v |-> RDiv(f.v, I(60))] ELSE Raised :
               f \in {PyFloat(time_part)} })

\* a default of half a quarter
NoTokenMinutes_Midpoint == I(6)

\* minutes_remaining: 12.0 unless the regex matched
NoTokenMinutes == I(12)

TokenMinutes(match) ==
    IF match.found THEN MinutesRemaining(match.group1)
    ELSE [ok |-> TRUE, v |-> NoTokenMinutes]

\* the value the `except` clause returns
ParseFallback(period) == RSub(RMul(I(period), I(12)), I(6))

parse_game_clock(clock_str, period) ==
    IF Contains(clock_str, W_Final) THEN RMul(I(period), I(12))
    ELSE IF Contains(clock_str, W_Half) THEN I(24)
    ELSE IF Contains(clock_str, W_Start) \/ period = 0 THEN I(0)
    ELSE The({ IF mr.ok
               THEN RAdd(RMul(I(period - 1), I(12)), RSub(I(12), mr.v))
               ELSE ParseFallback(period) :
               mr \in { The({ TokenMinutes(match) : match \in {ReSearch(clock_str)} }) } })

(* ------------------------------------------------------------------ *)
(* calculate_pace                                                      *)
(* ------------------------------------------------------------------ *)

\* an estimate that adds the offensive rebounds
get_poss_PlusRebounds(t) ==
    RAdd(RAdd(RAdd(I(t.statistics.fieldGoalsAttempted),
                   RMul(R(44, 100), I(t.statistics.freeThrowsAttempted))),
              I(t.statistics.reboundsOffensive)),
         I(t.statistics.turnovers))

\* FGA + 0.44 * FTA - OREB + TOV of one team
get_poss(t) ==
    LET s == t.statistics
    IN  RAdd(RSub(RAdd(I(s.fieldGoalsAttempted),
                       RMul(R(44, 100), I(s.freeThrowsAttempted))),
                  I(s.reboundsOffensive)),
             I(s.turnovers))

\* a divisor floored at one minute
PaceMinutes_Floor(minutes_elapsed) == RMax(minutes_elapsed, I(1))

\* the divisor of the pace: the elapsed minutes, 1 when they are not positive
PaceMinutes(minutes_elapsed) ==
    The({ IF RLe(m, I(0)) THEN I(1) ELSE m : m \in {minutes_elapsed} })

\* what calculate_pace returns when the fetch or a lookup raises
PaceFailure ==
    [pace |-> None, home |-> "None", away |-> "None", h_score |-> 0, a_score |-> 0,
     period |-> 0, clock |-> <<>>, mins_elapsed |-> I(0)]

\* data: the boxscore's 'game' object, data.ok = FALSE when the request fails
calculate_pace(data) ==
    IF ~data.ok THEN PaceFailure
    ELSE IF data.period = 0
    THEN [pace |-> Some(I(0)), home |-> data.homeTeam.teamTricode,
          away |-> data.awayTeam.teamTricode, h_score |-> 0, a_score |-> 0,
          period |-> 0, clock |-> data.gameStatusText, mins_elapsed |-> I(0)]
    ELSE The({ [pace |-> Some(RMul(RDiv(avg_poss, minutes_elapsed), I(48))),
                home |-> data.homeTeam.teamTricode,
                away |-> data.awayTeam.teamTricode, h_score |-> data.homeTeam.score,
                a_score |-> data.awayTeam.score, period |-> data.period,
                clock |-> data.gameStatusText, mins_elapsed |-> minutes_elapsed] :
               avg_poss \in {RDiv(RAdd(get_poss(data.homeTeam), get_poss(data.awayTeam)),
                                  I(2))},
               minutes_elapsed \in
                   {PaceMinutes(parse_game_clock(data.gameStatusText, data.period))} })

\* `if pace is not None`
PaceQualifies_NotNone(pace) == pace.some

\* Python's `if pace and pace > 0`
PaceQualifies(pace) == pace.some /\ pace.v # I(0) /\ RGt(pace.v, I(0))

(* ------------------------------------------------------------------ *)
(* The poll loop: st.session_state.pace_history                        *)
(* ------------------------------------------------------------------ *)

VARIABLES
    pace_history,   \* matchup key -> sequence of pace samples (a dict: keys appear)
    polled,         \* per game, what the last script run fetched and did with it
    live_odds,      \* the odds table the display block read (nba_odds.json)
    season_avg,     \* the season baseline the display block read
    force_log,      \* the logging trigger's force-override flag in the last run
    emitted,        \* the games for which the last run emitted a LogRecord
    trigger,        \* per game, the logging trigger's state
    args,           \* the arguments of the function call under study
    ret,            \* what that call returned
    pc              \* "run": the dashboard loop; "call" / "done": a single call

vars == <<pace_history, polled, live_odds, season_avg, force_log, emitted, trigger,
          args, ret, pc>>

GameIds == {"g1", "g2"}

\* the tricodes the boxscore of each game carries
HomeOf(g) == IF g = "g1" THEN "LAL" ELSE "DEN"
AwayOf(g) == IF g = "g1" THEN "BOS" ELSE "MIA"

\* f"{away} @ {home}"
MatchupKey(away, home) == <<away, "@", home>>
KeyOf(g) == MatchupKey(AwayOf(g), HomeOf(g))

Stats(fga, fta, oreb, tov) ==
    [fieldGoalsAttempted |-> fga, freeThrowsAttempted |-> fta,
     reboundsOffensive |-> oreb, turnovers |-> tov]

Team(code, score, stats) == [teamTricode |-> code, score |-> score, statistics |-> stats]

\* a series with no same-second check
ShouldAppend_Always(hist, now) == TRUE

\* a boxscore 'game' object
Box(g, period, text, h_score, a_score, h_stats, a_stats) ==
    [ok |-> TRUE, period |-> period, gameStatusText |-> text,
     homeTeam |-> Team(HomeOf(g), h_score, h_stats),
     awayTeam |-> Team(AwayOf(g), a_score, a_stats)]

\* a boxscore request that fails (timeout, bad JSON)
FetchFailed(g) ==
    [ok |-> FALSE, period |-> 0, gameStatusText |-> <<>>,
     homeTeam |-> Team(HomeOf(g), 0, Stats(0, 0, 0, 0)),
     awayTeam |-> Team(AwayOf(g), 0, Stats(0, 0, 0, 0))]

T_Final == <<"F", "i", "n", "a", "l">>
T_Pregame == <<"7", ":", "3", "0", " ", "p", "m", " ", "E", "T">>
T_Q1_0600 == <<"Q", "1", " ", "6", ":", "0", "0">>
T_Q4_0904 == <<"Q", "4", " ", "9", ":", "0", "4">>
T_Q4_0200 == <<"Q", "4", " ", "2", ":", "0", "0">>
T_Q4_0100 == <<"Q", "4", " ", "1", ":", "0", "0">>
T_Q5_0300 == <<"Q", "5", " ", "3", ":", "0", "0">>
T_Q4_0040 == <<"Q", "4", " ", "0", ":", "4", "0">>
T_Q5_0040 == <<"Q", "5", " ", "0", ":", "4", "0">>

HomeEx == Stats(40, 10, 8, 12)
AwayEx == Stats(42, 8, 6, 14)

\* the boxscores a poll of game g may fetch: a failed request, a game not yet
\* started, one whose offensive rebounds outweigh the rest, and live games in
\* the fourth quarter and in overtime
PollSamples(g) ==
    << FetchFailed(g),
       Box(g, 0, T_Pregame, 0, 0, Stats(0, 0, 0, 0), Stats(0, 0, 0, 0)),
       Box(g, 1, T_Q1_0600, 2, 0, Stats(1, 0, 3, 0), Stats(1, 0, 2, 0)),
       Box(g, 4, T_Q4_0100, 101, 99, HomeEx, AwayEx),
       Box(g, 5, T_Q5_0300, 110, 110, HomeEx, AwayEx),
       Box(g, 4, T_Q4_0200, 99, 97, HomeEx, AwayEx),
       Box(g, 4, T_Q4_0040, 103, 99, HomeEx, AwayEx),
       Box(g, 4, T_Final, 104, 101, HomeEx, AwayEx) >>

NPollSamples == Len(PollSamples("g1"))

\* the boxscores the runs of the history loop draw from
LoopSamples == 1..5
\* the boxscores the runs that log draw from: the end of the fourth quarter
LogSamples == {1, 4, 6, 7}

\* calculate_pace of every boxscore a poll may fetch
PaceTable ==
    [g \in GameIds |->
        [k \in 1..NPollSamples |->
            The({ calculate_pace(data) : data \in {PollSamples(g)[k]} })]]

Sample(now, r) ==
    [Time |-> now, Pace |-> r.pace.v, Home |-> r.home, Away |-> r.away,
     HomeScore |-> r.h_score, AwayScore |-> r.a_score, Clock |-> r.clock,
     Elapsed |-> r.mins_elapsed]

\* hist[-1], df.iloc[-1]
Latest(data) == data[Len(data)]

\* `if not hist or hist[-1]['Time'] != now`
ShouldAppend(hist, now) == Len(hist) = 0 \/ hist[Len(hist)].Time # now

\* the series of a matchup, empty when the dict has no such key
SeriesOf(h, key) == IF key \in DOMAIN h THEN h[key] ELSE <<>>

\* the body of the loop for one active game: r is calculate_pace's return
PollGame(h, r, now) ==
    IF PaceQualifies(r.pace)
    THEN The({ [k \in (DOMAIN h) \cup {matchup} |->
                   IF k # matchup THEN h[k]
                   ELSE IF ShouldAppend(hist, now) THEN Append(hist, Sample(now, r))
                   ELSE hist] :
               matchup \in {MatchupKey(r.away, r.home)},
               hist \in {SeriesOf(h, MatchupKey(r.away, r.home))} })
    ELSE h

\* the loop body for game g: skipped unless gameStatus >= 2
PollOne(h, inp, g) ==
    IF inp[g].status >= 2
    THEN The({ PollGame(h, r, inp[g].now) : r \in {PaceTable[g][inp[g].k]} })
    ELSE h

\* the whole loop over the scoreboard's games; inp[g] = [status, k, now]
RECURSIVE PollAll(_, _, _)
PollAll(h, inp, todo) ==
    IF todo = {} THEN h
    ELSE The({ PollAll(PollOne(h, inp, g), inp, todo \ {g}) : g \in {The(todo)} })

RECURSIVE SumLen(_, _)
SumLen(h, ks) ==
    IF ks = {} THEN 0
    ELSE The({ Len(h[k]) + SumLen(h, ks \ {k}) : k \in {The(ks)} })

TotalSamples(h) == SumLen(h, DOMAIN h)

NotPolled == [status |-> 1, k |-> 0, now |-> 0, appended |-> FALSE]

\* the inputs of one script run: per game its gameStatus, the boxscore fetched
\* and the wall-clock second (%H:%M:%S) at which the loop handles it
InputsFrom(samples) ==
    [GameIds -> {[status |-> 1, k |-> 0, now |-> 0]}
                \cup [status : {2}, k : samples, now : 0..MaxTime]]

Polled(h, h2, inp) ==
    [g \in GameIds |->
        [status |-> inp[g].status, k |-> inp[g].k, now |-> inp[g].now,
         appended |-> Len(SeriesOf(h2, KeyOf(g))) > Len(SeriesOf(h, KeyOf(g)))]]

\* the loop of one run over the games the scoreboard lists
Poll(inp) ==
    \E h2 \in {PollAll(pace_history, inp, GameIds)} :
        /\ pace_history' = h2
        /\ polled' = Polled(pace_history, h2, inp)

\* one run of the script, from the scoreboard fetch to the end of the loop
Run ==
    /\ pc = "run"
    /\ TotalSamples(pace_history) < MaxSamples
    /\ \E inp \in InputsFrom(LoopSamples) : Poll(inp)
    /\ UNCHANGED <<live_odds, season_avg, force_log, emitted, trigger, args, ret, pc>>

EmptyHistory == <<>>

\* the session state and the last run's record before any run
LoopIdle ==
    /\ pace_history = EmptyHistory
    /\ polled = [g \in GameIds |-> NotPolled]
    /\ live_odds = <<>>
    /\ season_avg = I(0)
    /\ force_log = FALSE
    /\ emitted = {}
    /\ trigger = [g \in GameIds |-> "Monitoring"]

Init ==
    /\ pc = "run"
    /\ LoopIdle
    /\ args = <<>>
    /\ ret = <<>>

Next == Run

Spec == Init /\ [][Next]_vars

\* what calculate_pace returned for game g in the last run
Fetched(g) == PaceTable[g][polled[g].k]
FetchedNext(g) == PaceTable[g][polled'[g].k]

WasPolled(g) == polled[g].status >= 2

NoAdjacentDuplicates ==
    \A m \in DOMAIN pace_history :
        \A i \in 1..(Len(pace_history[m]) - 1) :
            pace_history[m][i].Time # pace_history[m][i + 1].Time

PrefixKept ==
    \A m \in DOMAIN pace_history :
        /\ m \in DOMAIN pace_history'
        /\ Len(pace_history'[m]) >= Len(pace_history[m])
        /\ SubSeq(pace_history'[m], 1, Len(pace_history[m])) = pace_history[m]

SameSecondLeavesSeries ==
    \A g \in GameIds :
        (/\ polled'[g].status >= 2
         /\ KeyOf(g) \in DOMAIN pace_history
         /\ Latest(pace_history[KeyOf(g)]).Time = polled'[g].now)
        => pace_history'[KeyOf(g)] = pace_history[KeyOf(g)]

\* C1: no series ever holds two adjacent samples with the same timestamp; every
\* run keeps each stored series as a prefix of the new one; and a poll in the
\* second of the matchup's last sample leaves that series unchanged.
C1_AppendOnly ==
    []NoAdjacentDuplicates /\ [][PrefixKept /\ SameSecondLeavesSeries]_vars

\* a qualifying poll in the second of the last sample of a series of two
C1_Witness ==
    \E g \in GameIds :
        /\ WasPolled(g)
        /\ PaceQualifies(Fetched(g).pace)
        /\ ~polled[g].appended
        /\ KeyOf(g) \in DOMAIN pace_history
        /\ Len(pace_history[KeyOf(g)]) = 2
        /\ Latest(pace_history[KeyOf(g)]).Time = polled[g].now

AllPacesPositive ==
    \A m \in DOMAIN pace_history :
        \A i \in 1..Len(pace_history[m]) : RGt(pace_history[m][i].Pace, I(0))

\* the pace of the poll is None, 0 or negative
Unusable(pace) == ~pace.some \/ RLe(pace.v, I(0))

UnusablePollChangesNothing ==
    /\ \A g \in GameIds :
          (polled'[g].status >= 2 /\ Unusable(FetchedNext(g).pace)) =>
              /\ (KeyOf(g) \in DOMAIN pace_history' <=> KeyOf(g) \in DOMAIN pace_history)
              /\ SeriesOf(pace_history', KeyOf(g)) = SeriesOf(pace_history, KeyOf(g))
    /\ (\A g \in GameIds : polled'[g].status >= 2 => Unusable(FetchedNext(g).pace))
          => pace_history' = pace_history

\* C2: every stored sample has pace > 0; a poll whose pace is 0, negative or None
\* leaves the matchup's entry as it was (none is created), and a run of such polls
\* alone leaves the whole map unchanged.
C2_OnlyPositivePace ==
    []AllPacesPositive /\ [][UnusablePollChangesNothing]_vars

\* game g1 polled with a negative pace, a failed fetch for g2: no entry for
\* either, while a run before stored nothing
C2_Witness ==
    /\ WasPolled("g1") /\ Fetched("g1").pace = Some(I(-12))
    /\ WasPolled("g2") /\ ~Fetched("g2").pace.some
    /\ pace_history = EmptyHistory

(* ------------------------------------------------------------------ *)
(* The logging trigger (not in nba_pace_tracker.py)                    *)
(* ------------------------------------------------------------------ *)

\* seconds left in the current 12-minute period
RemainingSecondsInPeriod(r) == RSub(I(r.period * 12 * 60), RMul(r.mins_elapsed, I(60)))

\* period >= 4 and 0 < remaining seconds <= 90
InLoggingWindow(r) ==
    /\ r.period >= 4
    /\ RGt(RemainingSecondsInPeriod(r), I(0))
    /\ RLe(RemainingSecondsInPeriod(r), I(90))

\* the record is written on every poll inside the window (or under the
\* override), whether or not the poll added a sample
EmitsRecord(r, force) == PaceQualifies(r.pace) /\ (force \/ InLoggingWindow(r))

\* Monitoring -> LoggingWindow -> Closed
NextTrigger(state, r, force) ==
    IF ~PaceQualifies(r.pace) THEN state
    ELSE IF state = "Closed" THEN "Closed"
    ELSE IF force \/ InLoggingWindow(r) THEN "LoggingWindow"
    ELSE IF state = "LoggingWindow" THEN "Closed"
    ELSE "Monitoring"

\* one run of the script with the logging step after the loop
RunAndLog ==
    /\ pc = "run"
    /\ TotalSamples(pace_history) < MaxSamples
    /\ \E inp \in InputsFrom(LogSamples), force \in BOOLEAN :
          /\ Poll(inp)
          /\ force_log' = force
          /\ emitted' = {g \in GameIds :
                            inp[g].status >= 2 /\ EmitsRecord(PaceTable[g][inp[g].k], force)}
          /\ trigger' = [g \in GameIds |->
                            IF inp[g].status >= 2
                            THEN NextTrigger(trigger[g], PaceTable[g][inp[g].k], force)
                            ELSE trigger[g]]
    /\ UNCHANGED <<live_odds, season_avg, args, ret, pc>>

SpecLog == Init /\ [][RunAndLog]_vars

\* C3: a LogRecord is emitted for a game exactly when its poll is inside the
\* logging window (or the override is on) and appended a new sample, and never
\* once the matchup is Closed.
C3_EmitOncePerNewSample ==
    \A g \in GameIds :
        /\ g \in emitted <=>
              (/\ WasPolled(g)
               /\ Fetched(g).pace.some
               /\ (force_log \/ InLoggingWindow(Fetched(g)))
               /\ polled[g].appended)
        /\ (g \in emitted => trigger[g] # "Closed")

(* ------------------------------------------------------------------ *)
(* parse_game_clock as a function of its arguments                     *)
(* ------------------------------------------------------------------ *)

Digit(k) == DigitSeq[k + 1]
Decimal(m) == IF m < 10 THEN <<Digit(m)>> ELSE <<Digit(m \div 10), Digit(m % 10)>>

\* the text "Q<n> M:SS"
QText(n, m, ss) ==
    <<"Q", Digit(n), " ">> \o Decimal(m) \o <<":", Digit(ss \div 10), Digit(ss % 10)>>

QuarterDigits == {1, 4}
QuarterTexts == {QText(n, m, ss) : n \in QuarterDigits, m \in 0..12, ss \in 0..59}

ClockAlphabet == {"Q", "4", " ", ":", "0"}
ShortTexts == UNION {[1..n -> ClockAlphabet] : n \in 0..MaxTextLen}

T_FinalOT == <<"F", "i", "n", "a", "l", "/", "O", "T">>
T_Halftime == <<"H", "a", "l", "f", "t", "i", "m", "e">>
T_Start == <<"S", "t", "a", "r", "t">>
T_Words == <<"E", "n", "d", " ", "o", "f", " ", "Q">>
T_Iso == <<"P", "T", "0", "9", "M", "0", "4", ".", "0", "0", "S">>
T_OT == <<"O", "T", "1", " ", "4", ":", "3", "2">>
T_Q10 == <<"Q", "1", "0", " ", "5", ":", "0", "0">>
T_OneDigitSecs == <<"Q", "4", " ", "1", ":", "2">>
T_TwoColons == <<"Q", "4", " ", ":", ":", "4", "5">>
T_ThreeFields == <<"Q", "4", " ", ":", "1", "2", ":", "3", "4">>
T_Tenths == <<"Q", "4", " ", "4", "5", ".", "3">>
T_ColonTenths == <<"Q", "4", " ", "9", ":", "0", "4", ".", "5">>
T_SecondsOnly == <<"Q", "4", " ", "9", "0", "4">>

OtherTexts ==
    {T_Final, T_FinalOT, T_Halftime, T_Start, T_Words, T_Iso, T_OT, T_Q10,
     T_OneDigitSecs, T_TwoColons, T_ThreeFields, T_Tenths, T_ColonTenths,
     T_SecondsOnly, T_Pregame}

ClockTexts == ShortTexts \cup QuarterTexts \cup OtherTexts

InitClock ==
    /\ pc = "call"
    /\ LoopIdle
    /\ args \in [clock_str : ClockTexts, period : 0..MaxPeriod]
    /\ ret = <<>>

ParseClock ==
    /\ pc = "call"
    /\ ret' = parse_game_clock(args.clock_str, args.period)
    /\ pc' = "done"
    /\ UNCHANGED <<pace_history, polled, live_odds, season_avg, force_log, emitted,
                   trigger, args>>

SpecClock == InitClock /\ [][ParseClock]_vars

NoKeyword(s) == ~Contains(s, W_Final) /\ ~Contains(s, W_Half) /\ ~Contains(s, W_Start)

\* a finished call with period >= 1 on a text without "Final", "Half", "Start"
\* in which the regex finds no token
NoTokenCall ==
    /\ pc = "done"
    /\ args.period >= 1
    /\ NoKeyword(args.clock_str)
    /\ ~ReSearch(args.clock_str).found

\* C4 as stated: a text without keyword and without token parses to
\* period * 12 - 6.
C4_Original == NoTokenCall => ret = I(args.period * 12 - 6)

\* C4 (amended): a text without keyword and without token parses to
\* (period - 1) * 12, the start of the current quarter.
C4_QuarterStart == NoTokenCall => ret = I((args.period - 1) * 12)

\* the ISO-like token parsed in the fourth quarter
C4_Witness == NoTokenCall /\ args.clock_str = T_Iso /\ args.period = 4 /\ ret = I(36)

\* parse_game_clock of every "Q<n> M:SS" in periods 1..MaxPeriod+1
QuarterElapsed ==
    [n \in QuarterDigits |-> [p \in 1..(MaxPeriod + 1) |-> [m \in 0..12 |-> [ss \in 0..59 |->
        The({ parse_game_clock(t, p) : t \in {QText(n, m, ss)} })]]]]

T_Q1_1130 == <<"Q", "1", " ", "1", "1", ":", "3", "0">>
T_Q1_1200 == <<"Q", "1", " ", "1", "2", ":", "0", "0">>
T_Q1_1230 == <<"Q", "1", " ", "1", "2", ":", "3", "0">>

PaceTexts == {T_Q1_1130, T_Q1_1200, T_Q1_1230, T_Q1_0600, T_Halftime, T_Q4_0904}

StatRecords ==
    {Stats(a, b, c, d) : a \in 0..MaxStat, b \in 0..MaxStat, c \in 0..MaxStat,
                         d \in 0..MaxStat} \cup {HomeEx}
AwayStatSamples == {Stats(0, 0, 0, 0), Stats(1, 0, 2, 0), AwayEx}

PaceInputs ==
    {FetchFailed("g1")}
    \cup {Box("g1", p, t, 10, 8, h, a) :
            p \in 0..MaxPeriod, t \in PaceTexts, h \in StatRecords, a \in AwayStatSamples}

InitPace ==
    /\ pc = "call"
    /\ LoopIdle
    /\ args \in PaceInputs
    /\ ret = <<>>

CallPace ==
    /\ pc = "call"
    /\ ret' = calculate_pace(args)
    /\ pc' = "done"
    /\ UNCHANGED <<pace_history, polled, live_odds, season_avg, force_log, emitted,
                   trigger, args>>

SpecPace == InitPace /\ [][CallPace]_vars

\* a finished call on a boxscore that was fetched
PaceCall == pc = "done" /\ args.ok

\* 100 times the two teams' summed possession estimates, from the boxscore fields
Poss100(d) ==
    100 * (d.homeTeam.statistics.fieldGoalsAttempted
           + d.awayTeam.statistics.fieldGoalsAttempted
           + d.homeTeam.statistics.turnovers + d.awayTeam.statistics.turnovers
           - d.homeTeam.statistics.reboundsOffensive
           - d.awayTeam.statistics.reboundsOffensive)
    + 44 * (d.homeTeam.statistics.freeThrowsAttempted
            + d.awayTeam.statistics.freeThrowsAttempted)

ElapsedOf(d) == parse_game_clock(d.gameStatusText, d.period)

Finite(x) == x[2] > 0

\* C6 as stated: pace 0 in period 0, and a finite pace >= 0 whenever the elapsed
\* minutes are positive.
C6_Original ==
    PaceCall =>
        /\ (args.period = 0 => ret.pace = Some(I(0)))
        /\ (args.period >= 1 /\ RGt(ElapsedOf(args), I(0)) =>
               ret.pace.some /\ Finite(ret.pace.v) /\ RLe(I(0), ret.pace.v))

\* C6 (amended): pace 0 in period 0; with positive elapsed minutes the pace is
\* finite and is >= 0 exactly when the two possession estimates sum to >= 0.
C6_SignOfPossessions ==
    PaceCall =>
        /\ (args.period = 0 => ret.pace = Some(I(0)))
        /\ (args.period >= 1 /\ RGt(ElapsedOf(args), I(0)) =>
               /\ ret.pace.some
               /\ Finite(ret.pace.v)
               /\ (RLe(I(0), ret.pace.v) <=> Poss100(args) >= 0))

\* offensive rebounds outweigh the rest six minutes into the game: pace -12
C6_Witness ==
    /\ PaceCall
    /\ args.period = 1
    /\ args.gameStatusText = T_Q1_0600
    /\ Poss100(args) = -300
    /\ ret.pace = Some(I(-12))

\* C7 as stated: in a period >= 1 with elapsed minutes >= 0 the pace is
\* avg / max(elapsed, 1) * 48.
C7_Original ==
    (PaceCall /\ args.period >= 1 /\ RLe(I(0), ElapsedOf(args))) =>
        ret.pace = Some(RMul(RDiv(R(Poss100(args), 200), RMax(ElapsedOf(args), I(1))),
                             I(48)))

\* C7 (amended): the divisor is the elapsed minutes when they are positive and
\* 1 when they are zero (or negative); between 0 and 1 it is the elapsed minutes.
C7_DivisorIsElapsed ==
    (PaceCall /\ args.period >= 1) =>
        ret.pace = Some(RMul(RDiv(R(Poss100(args), 200),
                                  IF RGt(ElapsedOf(args), I(0)) THEN ElapsedOf(args)
                                  ELSE I(1)),
                             I(48)))

\* half a minute into the game: the example boxscore's 50.96 possessions are
\* divided by 0.5
C7_Witness ==
    /\ PaceCall
    /\ args.period = 1
    /\ args.gameStatusText = T_Q1_1130
    /\ args.homeTeam.statistics = HomeEx
    /\ args.awayTeam.statistics = AwayEx
    /\ ret.mins_elapsed = R(1, 2)
    /\ ret.pace = Some(R(5096 * 96, 100))

(* ------------------------------------------------------------------ *)
(* The display block: the projection metrics of one matchup            *)
(* ------------------------------------------------------------------ *)

\* a metric's text: "N/A", or a number formatted with one decimal
NA == [na |-> TRUE, v |-> I(0)]

\* x rounded to a tenth, ties to even; inf and nan stay what they are
RoundTenth(x) ==
    IF x[2] = 0 THEN x
    ELSE The({ IF 2 * (10 * x[1] - q * x[2]) < x[2] THEN R(q, 10)
               ELSE IF 2 * (10 * x[1] - q * x[2]) > x[2] THEN R(q + 1, 10)
               ELSE IF q % 2 = 0 THEN R(q, 10)
               ELSE R(q + 1, 10) :
               q \in {(10 * x[1]) \div x[2]} })

\* f"{x:.1f}"
Fmt1(x) == [na |-> FALSE, v |-> RoundTenth(x)]

\* a table in which `if dk_total` holds for None
DkPresent_Always(dk_total) == TRUE

\* `if dk_total`: neither None nor 0
DkPresent(dk_total) == dk_total.some /\ dk_total.v # I(0)

\* live_odds.get(matchup, {}).get('Over', None)
DkTotal(odds, matchup) == IF matchup \in DOMAIN odds THEN odds[matchup] ELSE None

TotalCurrent(latest) == latest.HomeScore + latest.AwayScore
ElapsedSec(latest) == RMul(latest.Elapsed, I(60))

\* total_game_sec = 2880; remaining_sec = max(0, total_game_sec - elapsed_sec)
RemainingSec(elapsed_sec) == RMax(I(0), RSub(I(2880), elapsed_sec))

\* points_per_sec * remaining_sec
ProjectedRemainingPoints(latest) ==
    RMul(RDiv(I(TotalCurrent(latest)), ElapsedSec(latest)),
         RemainingSec(ElapsedSec(latest)))

\* A. proj_text
PaceAdjustedText(latest, season, dk_total) ==
    IF DkPresent(dk_total) /\ RGt(season, I(0))
    THEN Fmt1(RMul(dk_total.v, RDiv(latest.Pace, season)))
    ELSE NA

\* B. the texts set under `if elapsed_sec > 60`
ProjRemainingText(latest) ==
    IF RGt(ElapsedSec(latest), I(60)) THEN Fmt1(ProjectedRemainingPoints(latest)) ELSE NA

RichProjText(latest) ==
    IF RGt(ElapsedSec(latest), I(60))
    THEN Fmt1(RAdd(I(TotalCurrent(latest)), ProjectedRemainingPoints(latest)))
    ELSE NA

ImpliedRemainingText(latest, dk_total) ==
    IF RGt(ElapsedSec(latest), I(60)) /\ DkPresent(dk_total)
    THEN Fmt1(RSub(dk_total.v, I(TotalCurrent(latest))))
    ELSE NA

DiffText(latest, dk_total) ==
    IF RGt(ElapsedSec(latest), I(60)) /\ DkPresent(dk_total)
    THEN Fmt1(RSub(ProjectedRemainingPoints(latest),
                   RSub(dk_total.v, I(TotalCurrent(latest)))))
    ELSE NA

\* C. ppm_text
PpmText(latest) ==
    IF RGt(latest.Elapsed, R(1, 2))
    THEN Fmt1(RDiv(I(TotalCurrent(latest)), latest.Elapsed))
    ELSE NA

\* D. implied_eff: guarded by the latest pace, not by the season average
ImpliedEffText(latest, season, dk_total) ==
    IF RGt(latest.Pace, I(0)) /\ DkPresent(dk_total)
    THEN Fmt1(RMul(RDiv(dk_total.v, season), I(100)))
    ELSE NA

\* the MATH LOGIC block for the latest sample of a matchup
ProjectionBlock(latest, season, dk_total) ==
    [proj_text |-> PaceAdjustedText(latest, season, dk_total),
     rich_proj_text |-> RichProjText(latest),
     proj_remaining_text |-> ProjRemainingText(latest),
     implied_remaining_text |-> ImpliedRemainingText(latest, dk_total),
     diff_text |-> DiffText(latest, dk_total),
     ppm_text |-> PpmText(latest),
     implied_eff |-> ImpliedEffText(latest, season, dk_total)]

\* the metrics of every matchup whose series has more than one sample
DisplayBlock(h, season, odds) ==
    [m \in {k \in DOMAIN h : Len(h[k]) > 1} |->
        The({ ProjectionBlock(latest, season, dk_total) :
              latest \in {Latest(h[m])}, dk_total \in {DkTotal(odds, m)} })]

T_Q1_1100 == <<"Q", "1", " ", "1", "1", ":", "0", "0">>
T_Q2_0300 == <<"Q", "2", " ", "3", ":", "0", "0">>

DisplayTexts ==
    {T_Q1_1130, T_Q1_1100, T_Q1_0600, T_Q2_0300, T_Q5_0040, T_Halftime, T_Final}
DisplayScores == {<<0, 0>>, <<55, 52>>, <<110, 110>>}

\* the boxscore of the poll that appended the latest sample
DisplayBoxes ==
    {Box("g1", p, t, sc[1], sc[2], HomeEx, AwayEx) :
        p \in 1..MaxPeriod, t \in DisplayTexts, sc \in DisplayScores}

\* the 'Over' points nba_odds.json may hold for a matchup
Totals == {I(220), R(2205, 10)}
OddsTables ==
    {<<>>} \cup {[k \in {KeyOf("g1")} |-> o] : o \in {None, Some(I(0))} \cup {Some(t) : t \in Totals}}

\* get_season_baseline(): the default 99.5, or the mean of the PACE column
SeasonAverages == {R(995, 10), I(102), I(0), R(-995, 10)}

\* an earlier sample of the series
FirstSample == Sample(0, The({ calculate_pace(d) : d \in {Box("g1", 1, T_Q1_0600, 12, 10, HomeEx, AwayEx)} }))

InitDisplay ==
    /\ pc = "call"
    /\ args \in DisplayBoxes
    /\ \E r \in {calculate_pace(args)} :
          /\ PaceQualifies(r.pace)
          /\ pace_history = [k \in {KeyOf("g1")} |-> <<FirstSample, Sample(1, r)>>]
    /\ polled = [g \in GameIds |-> NotPolled]
    /\ live_odds \in OddsTables
    /\ season_avg \in SeasonAverages
    /\ force_log = FALSE
    /\ emitted = {}
    /\ trigger = [g \in GameIds |-> "Monitoring"]
    /\ ret = <<>>

Display ==
    /\ pc = "call"
    /\ ret' = DisplayBlock(pace_history, season_avg, live_odds)
    /\ pc' = "done"
    /\ UNCHANGED <<pace_history, polled, live_odds, season_avg, force_log, emitted,
                   trigger, args>>

SpecDisplay == InitDisplay /\ [][Display]_vars

\* C8: without a bookmaker total the pace-adjusted projection, the implied
\* remaining points, the remainder edge and the implied efficiency are "N/A";
\* points per minute is shown iff elapsed > 0.5 minutes and the remaining points
\* projection iff elapsed > 60 seconds, both with the text any total gives.
C8_NoOdds ==
    pc = "done" =>
        \A m \in DOMAIN ret :
            ~DkTotal(live_odds, m).some =>
                /\ ret[m].proj_text.na
                /\ ret[m].implied_remaining_text.na
                /\ ret[m].diff_text.na
                /\ ret[m].implied_eff.na
                /\ (~ret[m].ppm_text.na <=> RGt(Latest(pace_history[m]).Elapsed, R(1, 2)))
                /\ (~ret[m].proj_remaining_text.na
                      <=> RGt(RMul(Latest(pace_history[m]).Elapsed, I(60)), I(60)))
                /\ \A t \in Totals :
                      \E with \in {ProjectionBlock(Latest(pace_history[m]), season_avg,
                                                   Some(t))} :
                          /\ with.ppm_text = ret[m].ppm_text
                          /\ with.proj_remaining_text = ret[m].proj_remaining_text

\* at halftime, 55-52, no odds: 107 / 24 = 4.458 points per minute and
\* 107 projected remaining points
C8_Witness ==
    /\ pc = "done"
    /\ live_odds = <<>>
    /\ args.gameStatusText = T_Halftime
    /\ args.homeTeam.score = 55
    /\ KeyOf("g1") \in DOMAIN ret
    /\ ret[KeyOf("g1")].ppm_text = Fmt1(R(45, 10))
    /\ ret[KeyOf("g1")].proj_remaining_text = Fmt1(I(107))
    /\ ret[KeyOf("g1")].implied_eff.na

\* the remaining seconds C9 states, for the period of the latest poll
ClaimedRemainingSec(period, elapsed) ==
    IF period >= 4 THEN RMax(I(0), RSub(I(period * 12 * 60), RMul(elapsed, I(60))))
    ELSE RSub(I(2880), RMul(elapsed, I(60)))

\* C9: the remaining points projection is (total / elapsed seconds) times
\* max(0, period*12*60 - elapsed seconds) from the fourth period on, and times
\* 2880 - elapsed seconds before.
C9_PeriodAwareRemaining ==
    pc = "done" =>
        \A m \in DOMAIN ret :
            \E latest \in {Latest(pace_history[m])} :
                RGt(ElapsedSec(latest), I(60)) =>
                    ret[m].proj_remaining_text
                        = Fmt1(RMul(RDiv(I(TotalCurrent(latest)), ElapsedSec(latest)),
                                    ClaimedRemainingSec(args.period, latest.Elapsed)))

Shown(text) == ~text.na

\* C10: with a season mean pace <= 0 the implied efficiency and the
\* pace-adjusted projection are "N/A", and no metric shown is inf or nan.
C10_GuardedDivisions ==
    pc = "done" =>
        \A m \in DOMAIN ret :
            /\ (RLe(season_avg, I(0)) =>
                   ret[m].implied_eff.na /\ ret[m].proj_text.na)
            /\ \A f \in DOMAIN ret[m] : Shown(ret[m][f]) => Finite(ret[m][f].v)

====
